---- MODULE Spec2Model ----
(***************************************************************************)
(* Model of pystrix.ami.core_events: the event classes of the Asterisk     *)
(* Manager Interface and the process() method by which each class turns    *)
(* the raw string headers of one message into typed values.                *)
(*                                                                         *)
(* A header value is a Python object.  Every value is modelled as a record *)
(* of one shape, [tag, str, num, exp]:                                     *)
(*   tag = "str"    a string, str is its sequence of characters            *)
(*   tag = "int"    an int, num is its value                               *)
(*   tag = "float"  a float, of value num * 10^exp (exp <= 0, normalised)  *)
(*   tag = "bool"   True (num = 1) or False (num = 0)                      *)
(*   tag = "none"   None                                                   *)
(*   tag = "raise"  an exception in flight, str holds its class name       *)
(***************************************************************************)
EXTENDS Integers, Sequences, FiniteSets, TLC

VARIABLES kind, headers, data, result

vars == <<kind, headers, data, result>>

(* The largest number of header lines of one message. *)
MaxHeaders == 2

----------------------------------------------------------------------------
(* Python values *)

StrVal(s) == [tag |-> "str", str |-> s, num |-> 0, exp |-> 0]

IntVal(n) == [tag |-> "int", str |-> <<>>, num |-> n, exp |-> 0]

RECURSIVE FloatNorm(_, _)
FloatNorm(m, e) ==
    IF m = 0 THEN [tag |-> "float", str |-> <<>>, num |-> 0, exp |-> 0]
    ELSE IF e < 0 /\ m % 10 = 0 THEN FloatNorm(m \div 10, e + 1)
    ELSE [tag |-> "float", str |-> <<>>, num |-> m, exp |-> e]

FloatVal(m, e) == FloatNorm(m, e)

BoolVal(b) == [tag |-> "bool", str |-> <<>>, num |-> IF b THEN 1 ELSE 0, exp |-> 0]

None == [tag |-> "none", str |-> <<>>, num |-> 0, exp |-> 0]

Raise(cls) == [tag |-> "raise", str |-> <<cls>>, num |-> 0, exp |-> 0]

IsRaise(v) == v.tag = "raise"

----------------------------------------------------------------------------
(* Python's numeric literals, as int() and float() read them *)

Digits == {"0", "1", "2", "3", "4", "5", "6", "7", "8", "9"}

DigitVal(c) ==
    CASE c = "0" -> 0 [] c = "1" -> 1 [] c = "2" -> 2 [] c = "3" -> 3
      [] c = "4" -> 4 [] c = "5" -> 5 [] c = "6" -> 6 [] c = "7" -> 7
      [] c = "8" -> 8 [] c = "9" -> 9

Whitespace == {" ", "\t"}

RECURSIVE LStrip(_)
LStrip(s) ==
    IF s # <<>> /\ Head(s) \in Whitespace THEN LStrip(Tail(s)) ELSE s

RECURSIVE RStrip(_)
RStrip(s) ==
    IF s # <<>> /\ s[Len(s)] \in Whitespace
    THEN RStrip(SubSeq(s, 1, Len(s) - 1)) ELSE s

Strip(s) == RStrip(LStrip(s))

HasSign(s) == s # <<>> /\ Head(s) \in {"+", "-"}

Unsigned(s) == IF HasSign(s) THEN Tail(s) ELSE s

Sign(s) == IF s # <<>> /\ Head(s) = "-" THEN -1 ELSE 1

AllDigits(s) == \A i \in 1..Len(s) : s[i] \in Digits

RECURSIVE DigitsVal(_)
DigitsVal(s) ==
    IF s = <<>> THEN 0
    ELSE 10 * DigitsVal(SubSeq(s, 1, Len(s) - 1)) + DigitVal(s[Len(s)])

RECURSIVE Pow10(_)
Pow10(n) == IF n = 0 THEN 1 ELSE 10 * Pow10(n - 1)

Abs(n) == IF n < 0 THEN -n ELSE n

(* int(v): a string is stripped, then read as an optional sign and one or  *)
(* more decimal digits; a number is truncated towards zero; None is a      *)
(* TypeError.                                                              *)
PyInt(v) ==
    CASE v.tag = "raise" -> v
      [] v.tag = "int" -> v
      [] v.tag = "bool" -> IntVal(v.num)
      [] v.tag = "float" ->
            IntVal((IF v.num < 0 THEN -1 ELSE 1) * (Abs(v.num) \div Pow10(-v.exp)))
      [] v.tag = "none" -> Raise("TypeError")
      [] v.tag = "str" ->
            LET s == Strip(v.str)
                u == Unsigned(s)
            IN  IF u # <<>> /\ AllDigits(u)
                THEN IntVal(Sign(s) * DigitsVal(u))
                ELSE Raise("ValueError")

DotAt(s) == {i \in 1..Len(s) : s[i] = "."}

(* float(v): a string is stripped, then read as an optional sign, digits,  *)
(* and an optional point followed by digits, with a digit on at least one  *)
(* side of the point; None is a TypeError.                                 *)
PyFloat(v) ==
    CASE v.tag = "raise" -> v
      [] v.tag = "float" -> v
      [] v.tag = "int" -> FloatVal(v.num, 0)
      [] v.tag = "bool" -> FloatVal(v.num, 0)
      [] v.tag = "none" -> Raise("TypeError")
      [] v.tag = "str" ->
            LET s == Strip(v.str)
                u == Unsigned(s)
                dots == DotAt(u)
            IN  IF dots = {}
                THEN IF u # <<>> /\ AllDigits(u)
                     THEN FloatVal(Sign(s) * DigitsVal(u), 0)
                     ELSE Raise("ValueError")
                ELSE LET d == CHOOSE i \in dots : \A j \in dots : i <= j
                         ip == SubSeq(u, 1, d - 1)
                         fp == SubSeq(u, d + 1, Len(u))
                     IN  IF AllDigits(ip) /\ AllDigits(fp) /\ Len(ip) + Len(fp) > 0
                         THEN FloatVal(Sign(s) * DigitsVal(ip \o fp), -Len(fp))
                         ELSE Raise("ValueError")

----------------------------------------------------------------------------
(* Python's ==, truth value and `and` *)

IsNumber(v) == v.tag \in {"int", "float", "bool"}

PyEq(a, b) ==
    IF IsNumber(a) /\ IsNumber(b) THEN a.num = b.num /\ a.exp = b.exp
    ELSE IF a.tag = "str" /\ b.tag = "str" THEN a.str = b.str
    ELSE a.tag = "none" /\ b.tag = "none"

Truthy(v) ==
    CASE v.tag = "str" -> v.str # <<>>
      [] v.tag = "none" -> FALSE
      [] OTHER -> v.num # 0

(* a and b: a when a is false, else b *)
PyAnd(a, b) == IF Truthy(a) THEN b ELSE a

----------------------------------------------------------------------------
(* dict operations on a header mapping *)

(* headers[k]: KeyError when k is absent *)
GetItem(h, k) == IF k \in DOMAIN h THEN h[k] ELSE Raise("KeyError")

(* headers.get(k): None when k is absent *)
Get(h, k) == IF k \in DOMAIN h THEN h[k] ELSE None

(* headers[k] = v *)
SetItem(h, k, v) == [x \in (DOMAIN h) \cup {k} |-> IF x = k THEN v ELSE h[x]]

----------------------------------------------------------------------------
(* The event classes and the headers each documents *)

PassThroughKinds ==
    {"DBGetResponse", "FullyBooted", "ParkedCallsComplete", "PeerlistComplete",
     "QueueMemberRemoved", "QueueStatusComplete", "StatusComplete",
     "UserEvent", "VarSet"}

CoercingKinds ==
    {"Hangup", "ParkedCall", "PeerEntry", "QueueEntry", "QueueMember",
     "QueueMemberAdded", "QueueMemberPaused", "QueueParams", "Status"}

Kinds == PassThroughKinds \cup CoercingKinds

ExpectedKeys(k) ==
    CASE k = "DBGetResponse" -> {"Family", "Key", "Val"}
      [] k = "FullyBooted" -> {"Status"}
      [] k = "Hangup" -> {"Cause", "Cause-txt", "Channel", "Uniqueid"}
      [] k = "ParkedCall" ->
            {"ActionID", "CallerID", "CallerIDName", "Channel", "Exten", "From",
             "Timeout"}
      [] k = "ParkedCallsComplete" -> {"ActionID"}
      [] k = "PeerEntry" ->
            {"ActionID", "ChannelType", "ObjectName", "ChanObjectType",
             "IPaddress", "IPport", "Dynamic", "Natsupport", "VideoSupport",
             "ACL", "Status", "RealtimeDevice"}
      [] k = "PeerlistComplete" -> {"ActionID"}
      [] k = "QueueEntry" ->
            {"ActionID", "Channel", "CallerID", "CallerIDName", "Position",
             "Queue", "Wait"}
      [] k = "QueueMember" ->
            {"ActionID", "CallsTaken", "LastCall", "Location", "MemberName",
             "Membership", "Paused", "Penalty", "Queue", "Status"}
      [] k = "QueueMemberAdded" ->
            {"CallsTaken", "LastCall", "Location", "MemberName", "Membership",
             "Paused", "Penalty", "Queue", "Status"}
      [] k = "QueueMemberPaused" -> {"Location", "MemberName", "Paused", "Queue"}
      [] k = "QueueMemberRemoved" -> {"Location", "MemberName", "Queue"}
      [] k = "QueueParams" ->
            {"Abandoned", "ActionID", "Calls", "Completed", "Holdtime", "Max",
             "Queue", "ServiceLevel", "ServiceLevelPerf", "Weight"}
      [] k = "QueueStatusComplete" -> {"ActionID"}
      [] k = "Status" ->
            {"Account", "ActionID", "Channel", "CallerID", "CallerIDNum",
             "CallerIDName", "Context", "Extension", "Link", "Priority",
             "Seconds", "State", "Uniqueid"}
      [] k = "StatusComplete" -> {"ActionID"}
      [] k = "UserEvent" -> {"ActionID", "Custom"}
      [] k = "VarSet" -> {"Channel", "Uniqueid", "Value", "Variable"}

----------------------------------------------------------------------------
(* The raw messages: header values as they come off the wire *)

RawStrings ==
    { <<>>,                      (* ""     *)
      <<"0">>,                   (* "0"    *)
      <<"1">>,                   (* "1"    *)
      <<"4", "2">>,              (* "42"   *)
      <<"-", "1">>,              (* "-1"   *)
      <<"1", "2", ".", "5">>,    (* "12.5" *)
      <<"x">>,                   (* "x"    *)
      <<"y", "e", "s">>,         (* "yes"  *)
      <<"Y", "e", "s">> }        (* "Yes"  *)

RawValues == {StrVal(s) : s \in RawStrings}

(* the body lines that follow the header block *)
Bodies == {<<"line">>}

RawHeaders(k) ==
    UNION {[S -> RawValues] :
             S \in {T \in SUBSET ExpectedKeys(k) : Cardinality(T) <= MaxHeaders}}

----------------------------------------------------------------------------
(* Statements of a process() body.  A frame is the local `headers` of one   *)
(* call together with whether an exception has left the body uncaught.      *)

Frame(h) == [raised |-> FALSE, headers |-> h]

(* except ValueError: an exception of another class leaves the body *)
ExceptValueError(v, fallback) ==
    IF IsRaise(v) /\ v.str = <<"ValueError">> THEN fallback ELSE v

(* except Exception: every exception raised in the try block is replaced by *)
(* what the handler assigns                                                 *)
Except(v, fallback) == IF IsRaise(v) THEN fallback ELSE v

(* headers[k] = v, where evaluating v may have raised *)
Store(f, k, v) ==
    IF f.raised THEN f
    ELSE IF IsRaise(v) THEN [raised |-> TRUE, headers |-> f.headers]
    ELSE [raised |-> FALSE, headers |-> SetItem(f.headers, k, v)]

EmptyHeaders == [k \in {} |-> None]

Unprocessed == [status |-> "unprocessed", headers |-> EmptyHeaders, data |-> <<>>]

(* return (headers, data), unless an exception left the body before it *)
Return(f, d) ==
    IF f.raised
    THEN [status |-> "raised", headers |-> EmptyHeaders, data |-> <<>>]
    ELSE [status |-> "returned", headers |-> f.headers, data |-> d]

(* _Message.process: a copy of the headers, and the body *)
Message_process(h, d) == [headers |-> h, data |-> d]

(* the fallback written as the string '-1' *)
IntOrSentinelQuoted(f, k) ==
    Store(f, k, Except(PyInt(Get(f.headers, k)), StrVal(<<"-", "1">>)))

(* try: headers[k] = int(headers.get(k))  except Exception: headers[k] = -1 *)
IntOrSentinel(f, k) ==
    Store(f, k, Except(PyInt(Get(f.headers, k)), IntVal(-1)))

(* the fallback the docstring of QueueParams.process names: None *)
FloatOrSentinelNone(f, k) ==
    Store(f, k, Except(PyFloat(Get(f.headers, k)), None))

(* try: headers[k] = float(headers.get(k))  except Exception: headers[k] = -1 *)
FloatOrSentinel(f, k) ==
    Store(f, k, Except(PyFloat(Get(f.headers, k)), IntVal(-1)))

(* without the test for None: the header is assigned even when absent *)
OptionalIntAssign(f, k) ==
    Store(f, k, Except(PyInt(Get(f.headers, k)), None))

(* `if v:` in place of `if not v is None:` *)
OptionalIntTruthy(f, k) ==
    LET v == Get(f.headers, k)
    IN  IF Truthy(v)
        THEN Store(f, k, Except(PyInt(v), None))
        ELSE f

(* v = headers.get(k); if not v is None: try: headers[k] = int(v)           *)
(* except Exception: headers[k] = None                                      *)
OptionalInt(f, k) ==
    LET v == Get(f.headers, k)
    IN  IF v.tag # "none"
        THEN Store(f, k, Except(PyInt(v), None))
        ELSE f

(* the short circuit of 'Paused': v and v == 'yes' *)
EqualsYesShortCircuit(f, k) ==
    LET v == Get(f.headers, k)
    IN  Store(f, k, PyAnd(v, BoolVal(PyEq(v, StrVal(<<"y", "e", "s">>)))))

(* headers[k] = headers.get(k) == 'yes' *)
EqualsYes(f, k) ==
    Store(f, k, BoolVal(PyEq(Get(f.headers, k), StrVal(<<"y", "e", "s">>))))

(* paused = headers.get('Paused'); headers['Paused'] = paused and paused == '1' *)
PausedFlag(f) ==
    LET paused == Get(f.headers, "Paused")
    IN  Store(f, "Paused", PyAnd(paused, BoolVal(PyEq(paused, StrVal(<<"1">>)))))

(* for header in names: step(headers, header) *)
RECURSIVE ForInt(_, _)
ForInt(f, names) ==
    IF names = <<>> THEN f ELSE ForInt(IntOrSentinel(f, Head(names)), Tail(names))

RECURSIVE ForFloat(_, _)
ForFloat(f, names) ==
    IF names = <<>> THEN f ELSE ForFloat(FloatOrSentinel(f, Head(names)), Tail(names))

RECURSIVE ForYes(_, _)
ForYes(f, names) ==
    IF names = <<>> THEN f ELSE ForYes(EqualsYes(f, Head(names)), Tail(names))

----------------------------------------------------------------------------
(* The process() method of each class *)

(* 'Uniqueid' coerced along with 'Cause' *)
Hangup_processUniqueid(h, d) ==
    LET m == Message_process(h, d)
        f == Frame(m.headers)
        g == Store(f, "Cause", Except(PyInt(GetItem(f.headers, "Cause")), None))
    IN  Return(Store(g, "Uniqueid", Except(PyInt(GetItem(g.headers, "Uniqueid")), None)),
               m.data)

(* int(headers['Cause']) or None *)
Hangup_processFalsy(h, d) ==
    LET m == Message_process(h, d)
        f == Frame(m.headers)
        v == Except(PyInt(GetItem(f.headers, "Cause")), None)
    IN  Return(Store(f, "Cause", IF Truthy(v) THEN v ELSE None), m.data)

(* 'Cause' treated as ParkedCall treats 'Timeout' *)
Hangup_processOptional(h, d) ==
    LET m == Message_process(h, d)
    IN  Return(OptionalInt(Frame(m.headers), "Cause"), m.data)

Hangup_process(h, d) ==
    LET m == Message_process(h, d)
        f == Frame(m.headers)
    IN  Return(Store(f, "Cause", Except(PyInt(GetItem(f.headers, "Cause")), None)),
               m.data)

ParkedCall_process(h, d) ==
    LET m == Message_process(h, d)
    IN  Return(OptionalInt(Frame(m.headers), "Timeout"), m.data)

PeerEntry_process(h, d) ==
    LET m == Message_process(h, d)
        f == OptionalInt(Frame(m.headers), "IPport")
    IN  Return(ForYes(f, <<"Dynamic", "Natsupport", "VideoSupport", "ACL",
                          "RealtimeDevice">>),
               m.data)

QueueEntry_process(h, d) ==
    LET m == Message_process(h, d)
    IN  Return(ForInt(Frame(m.headers), <<"Position", "Wait">>), m.data)

QueueMember_process(h, d) ==
    LET m == Message_process(h, d)
        f == ForInt(Frame(m.headers),
                    <<"CallsTaken", "LastCall", "Penalty", "Status">>)
    IN  Return(PausedFlag(f), m.data)

QueueMemberAdded_process(h, d) ==
    LET m == Message_process(h, d)
        f == ForInt(Frame(m.headers),
                    <<"CallsTaken", "LastCall", "Penalty", "Status">>)
    IN  Return(PausedFlag(f), m.data)

QueueMemberPaused_process(h, d) ==
    LET m == Message_process(h, d)
    IN  Return(PausedFlag(Frame(m.headers)), m.data)

QueueParams_process(h, d) ==
    LET m == Message_process(h, d)
        f == ForInt(Frame(m.headers),
                    <<"Abandoned", "Calls", "Completed", "Holdtime", "Max">>)
    IN  Return(ForFloat(f, <<"ServiceLevel", "ServiceLevelPerf", "Weight">>),
               m.data)

Status_process(h, d) ==
    LET m == Message_process(h, d)
    IN  Return(IntOrSentinel(Frame(m.headers), "Seconds"), m.data)

(* a class without a process() of its own inherits _Message.process *)
Inherited_process(h, d) ==
    LET m == Message_process(h, d)
    IN  Return(Frame(m.headers), m.data)

(* the process() that a message of class k runs *)
Process(k, h, d) ==
    CASE k = "Hangup" -> Hangup_process(h, d)
      [] k = "ParkedCall" -> ParkedCall_process(h, d)
      [] k = "PeerEntry" -> PeerEntry_process(h, d)
      [] k = "QueueEntry" -> QueueEntry_process(h, d)
      [] k = "QueueMember" -> QueueMember_process(h, d)
      [] k = "QueueMemberAdded" -> QueueMemberAdded_process(h, d)
      [] k = "QueueMemberPaused" -> QueueMemberPaused_process(h, d)
      [] k = "QueueParams" -> QueueParams_process(h, d)
      [] k = "Status" -> Status_process(h, d)
      [] OTHER -> Inherited_process(h, d)

----------------------------------------------------------------------------
(* The state machine: one message is constructed, then processed once *)

Init ==
    /\ kind \in Kinds
    /\ headers \in RawHeaders(kind)
    /\ data \in Bodies
    /\ result = Unprocessed

Call(k) ==
    /\ kind = k
    /\ result.status = "unprocessed"

ProcessHangup ==
    /\ Call("Hangup")
    /\ result' = Hangup_process(headers, data)
    /\ UNCHANGED <<kind, headers, data>>

ProcessParkedCall ==
    /\ Call("ParkedCall")
    /\ result' = ParkedCall_process(headers, data)
    /\ UNCHANGED <<kind, headers, data>>

ProcessPeerEntry ==
    /\ Call("PeerEntry")
    /\ result' = PeerEntry_process(headers, data)
    /\ UNCHANGED <<kind, headers, data>>

ProcessQueueEntry ==
    /\ Call("QueueEntry")
    /\ result' = QueueEntry_process(headers, data)
    /\ UNCHANGED <<kind, headers, data>>

ProcessQueueMember ==
    /\ Call("QueueMember")
    /\ result' = QueueMember_process(headers, data)
    /\ UNCHANGED <<kind, headers, data>>

ProcessQueueMemberAdded ==
    /\ Call("QueueMemberAdded")
    /\ result' = QueueMemberAdded_process(headers, data)
    /\ UNCHANGED <<kind, headers, data>>

ProcessQueueMemberPaused ==
    /\ Call("QueueMemberPaused")
    /\ result' = QueueMemberPaused_process(headers, data)
    /\ UNCHANGED <<kind, headers, data>>

ProcessQueueParams ==
    /\ Call("QueueParams")
    /\ result' = QueueParams_process(headers, data)
    /\ UNCHANGED <<kind, headers, data>>

ProcessStatus ==
    /\ Call("Status")
    /\ result' = Status_process(headers, data)
    /\ UNCHANGED <<kind, headers, data>>

ProcessInherited ==
    /\ kind \in PassThroughKinds
    /\ result.status = "unprocessed"
    /\ result' = Inherited_process(headers, data)
    /\ UNCHANGED <<kind, headers, data>>

Next ==
    \/ ProcessHangup
    \/ ProcessParkedCall
    \/ ProcessPeerEntry
    \/ ProcessQueueEntry
    \/ ProcessQueueMember
    \/ ProcessQueueMemberAdded
    \/ ProcessQueueMemberPaused
    \/ ProcessQueueParams
    \/ ProcessStatus
    \/ ProcessInherited

Spec == Init /\ [][Next]_vars

----------------------------------------------------------------------------
(* What the claims speak of *)

Returned == result.status = "returned"

Out == result.headers

Present(k) == k \in DOMAIN headers

Text(s) == StrVal(s)

(* The integer and decimal literals among the raw strings, read by hand *)
IntTexts == {<<"0">>, <<"1">>, <<"4", "2">>, <<"-", "1">>}

IntOfText(s) ==
    CASE s = <<"0">> -> 0
      [] s = <<"1">> -> 1
      [] s = <<"4", "2">> -> 42
      [] s = <<"-", "1">> -> -1

TwelveAndAHalf == [tag |-> "float", str |-> <<>>, num |-> 125, exp |-> -1]

FloatTexts == IntTexts \cup {<<"1", "2", ".", "5">>}

FloatOfText(s) ==
    IF s \in IntTexts
    THEN [tag |-> "float", str |-> <<>>, num |-> IntOfText(s), exp |-> 0]
    ELSE TwelveAndAHalf

(* The headers given a coercion policy, per kind *)
SentinelInts(k) ==
    CASE k = "QueueEntry" -> {"Position", "Wait"}
      [] k \in {"QueueMember", "QueueMemberAdded"} ->
            {"CallsTaken", "LastCall", "Penalty", "Status"}
      [] k = "QueueParams" -> {"Abandoned", "Calls", "Completed", "Holdtime", "Max"}
      [] k = "Status" -> {"Seconds"}
      [] OTHER -> {}

SentinelFloats(k) ==
    IF k = "QueueParams" THEN {"ServiceLevel", "ServiceLevelPerf", "Weight"} ELSE {}

OptionalInts(k) ==
    CASE k = "ParkedCall" -> {"Timeout"}
      [] k = "PeerEntry" -> {"IPport"}
      [] OTHER -> {}

YesFlags(k) ==
    IF k = "PeerEntry"
    THEN {"Dynamic", "Natsupport", "VideoSupport", "ACL", "RealtimeDevice"}
    ELSE {}

PausedKinds == {"QueueMember", "QueueMemberAdded", "QueueMemberPaused"}

(* the headers a kind assigns whether or not the input holds them *)
AlwaysAssigned(k) ==
    SentinelInts(k) \cup SentinelFloats(k) \cup YesFlags(k)
      \cup (IF k = "Hangup" THEN {"Cause"} ELSE {})
      \cup (IF k \in PausedKinds THEN {"Paused"} ELSE {})

PolicyKeys(k) == AlwaysAssigned(k) \cup OptionalInts(k)

----------------------------------------------------------------------------
(* C1: for every kind and every input header mapping, process returns a     *)
(* (headers, body) pair and never raises: a parse failure or an absent      *)
(* field becomes a fallback value.                                          *)
C1_NeverRaises == result.status \in {"unprocessed", "returned"}

(* a Hangup without 'Cause' and a QueueParams with an unparsable field,     *)
(* processed                                                                *)
C1_Witness ==
    /\ Returned
    /\ \/ kind = "Hangup" /\ ~Present("Cause")
       \/ kind = "QueueParams" /\ Present("Weight") /\ headers["Weight"] = Text(<<"x">>)

----------------------------------------------------------------------------
(* C2 as stated: for every kind and input, the keys of the returned headers *)
(* are exactly the keys of the input headers.                               *)
C2_KeysPreserved == Returned => DOMAIN Out = DOMAIN headers

(* C2 amended: the keys of the returned headers are the keys of the input   *)
(* together with the headers the kind always assigns; no key is removed,    *)
(* and an optional-int header absent from the input stays absent.           *)
C2_KeysAmended ==
    Returned => DOMAIN Out = (DOMAIN headers) \cup AlwaysAssigned(kind)

C2_Witness ==
    /\ Returned
    /\ kind = "ParkedCall"
    /\ ~Present("Timeout")
    /\ Present("Channel")

----------------------------------------------------------------------------
(* C3: every header without a coercion policy keeps its key and its string  *)
(* value, and the body is returned unchanged; a pass-through kind returns   *)
(* its input headers, and for Hangup only 'Cause' may differ.               *)
C3_Frame ==
    Returned =>
        /\ result.data = data
        /\ \A k \in (DOMAIN headers) \ PolicyKeys(kind) :
              k \in DOMAIN Out /\ Out[k] = headers[k]
        /\ kind \in PassThroughKinds => Out = headers
        /\ kind = "Hangup" =>
              \A k \in (DOMAIN headers) \cup (DOMAIN Out) :
                  k # "Cause" => k \in DOMAIN headers /\ k \in DOMAIN Out
                                   /\ Out[k] = headers[k]

C3_Witness ==
    /\ Returned
    /\ kind = "Hangup"
    /\ Present("Cause") /\ headers["Cause"] = Text(<<"4", "2">>)
    /\ Present("Uniqueid") /\ headers["Uniqueid"] = Text(<<"4", "2">>)
    /\ data = <<"line">>

----------------------------------------------------------------------------
----------------------------------------------------------------------------
(* C5: an optional-int header (ParkedCall 'Timeout', PeerEntry 'IPport')    *)
(* absent from the input is absent from the output; present with an integer *)
(* string it is that integer; present with any other string, the empty one  *)
(* included, it stays present with None.                                    *)
C5_OptionalInt ==
    Returned =>
        \A k \in OptionalInts(kind) :
            IF ~Present(k) THEN k \notin DOMAIN Out
            ELSE /\ k \in DOMAIN Out
                 /\ Out[k] = IF headers[k].str \in IntTexts
                             THEN IntVal(IntOfText(headers[k].str))
                             ELSE None

C5_Witness ==
    /\ Returned
    /\ kind = "ParkedCall"
    /\ Present("Timeout") /\ headers["Timeout"] = Text(<<>>)
    /\ Out["Timeout"] = None

----------------------------------------------------------------------------
(* C6: a Hangup 'Cause' present in the input is the integer it spells, "0"  *)
(* giving the integer 0 and not None, and is None exactly when the input is *)
(* not an integer string.                                                   *)
C6_Cause ==
    Returned /\ kind = "Hangup" /\ Present("Cause") =>
        /\ "Cause" \in DOMAIN Out
        /\ Out["Cause"] = IF headers["Cause"].str \in IntTexts
                          THEN IntVal(IntOfText(headers["Cause"].str))
                          ELSE None
        /\ headers["Cause"] = Text(<<"0">>) =>
              Out["Cause"].tag = "int" /\ Out["Cause"].num = 0
        /\ Out["Cause"] = None => headers["Cause"].str \notin IntTexts

C6_Witness ==
    /\ Returned
    /\ kind = "Hangup"
    /\ Present("Cause") /\ headers["Cause"] = Text(<<"0">>)
    /\ Out["Cause"] = IntVal(0)

----------------------------------------------------------------------------
(* C7: each yes/no header of a PeerEntry is a strict boolean in the output, *)
(* true exactly when the input value is the string "yes", false for every   *)
(* other string and when the key is absent.                                 *)
C7_YesFlags ==
    Returned =>
        \A k \in YesFlags(kind) :
            /\ k \in DOMAIN Out
            /\ Out[k] = BoolVal(Present(k) /\ headers[k].str = <<"y", "e", "s">>)

C7_Witness ==
    /\ Returned
    /\ kind = "PeerEntry"
    /\ Present("Dynamic") /\ headers["Dynamic"] = Text(<<"y", "e", "s">>)
    /\ Present("ACL") /\ headers["ACL"] = Text(<<"Y", "e", "s">>)
    /\ Out["Dynamic"] = BoolVal(TRUE)
    /\ Out["ACL"] = BoolVal(FALSE)
    /\ Out["Natsupport"] = BoolVal(FALSE)

----------------------------------------------------------------------------
(* C8: for QueueMember, QueueMemberAdded and QueueMemberPaused the output   *)
(* 'Paused' is true when the input is "1", false for every other present    *)
(* string, the empty one included, and None when the key is absent.         *)
C8_Paused ==
    Returned /\ kind \in PausedKinds =>
        /\ "Paused" \in DOMAIN Out
        /\ Out["Paused"] = IF ~Present("Paused") THEN None
                           ELSE BoolVal(headers["Paused"].str = <<"1">>)

----------------------------------------------------------------------------
(* the result of processing, as a message of the same kind, the output *)
Reapplied == Process(kind, Out, result.data)

Changes(k, h, d) ==
    LET once == Process(k, h, d)
    IN  Process(k, once.headers, once.data) # once

(* C9 as stated: processing is idempotent for the nine pass-through kinds,  *)
(* and every coercing kind has an input whose output changes when it is     *)
(* processed a second time.                                                 *)
C9_IdempotentOnlyPassThrough ==
    Returned =>
        /\ kind \in PassThroughKinds => Reapplied = result
        /\ kind \in CoercingKinds =>
              \E h \in RawHeaders(kind) : Changes(kind, h, data)

IdempotentKinds ==
    PassThroughKinds \cup {"Hangup", "ParkedCall", "QueueEntry", "Status"}

(* C9 amended: processing is idempotent for the nine pass-through kinds and *)
(* for Hangup, ParkedCall, QueueEntry and Status; the output of a PeerEntry *)
(* with a true yes/no header, or of a QueueMember, QueueMemberAdded or      *)
(* QueueMemberPaused with a true 'Paused', changes when processed again     *)
(* (true becomes false), and so does the output of a QueueParams whose      *)
(* float header fell back to -1 (the int -1 becomes the float -1.0, which   *)
(* compares equal to it).                                                   *)
C9_Idempotence ==
    Returned =>
        /\ kind \in IdempotentKinds => Reapplied = result
        /\ (\E k \in YesFlags(kind) : Out[k] = BoolVal(TRUE)) => Reapplied # result
        /\ kind \in PausedKinds /\ Out["Paused"] = BoolVal(TRUE) => Reapplied # result
        /\ kind = "QueueParams" =>
              /\ (\E k \in SentinelFloats(kind) : Out[k] = IntVal(-1)) =>
                    Reapplied # result
              /\ Reapplied.status = "returned"
              /\ DOMAIN Reapplied.headers = DOMAIN Out
              /\ \A k \in DOMAIN Out : PyEq(Reapplied.headers[k], Out[k])

C9_Witness ==
    /\ Returned
    /\ kind = "QueueEntry"
    /\ Present("Wait") /\ headers["Wait"] = Text(<<"x">>)
    /\ Present("Position") /\ headers["Position"] = Text(<<"4", "2">>)
    /\ Reapplied = result

----------------------------------------------------------------------------
(* C10: a Hangup without 'Cause' is processed normally and its output holds *)
(* 'Cause' = None, the same output as an unparsable 'Cause' gives; a        *)
(* ParkedCall without 'Timeout' has no 'Timeout' in its output.             *)
C10_AbsentCause ==
    /\ kind = "Hangup" /\ ~Present("Cause") /\ result.status # "unprocessed" =>
          /\ Returned
          /\ "Cause" \in DOMAIN Out
          /\ Out["Cause"] = None
          /\ result = Hangup_process(SetItem(headers, "Cause", Text(<<"x">>)), data)
    /\ kind = "ParkedCall" /\ ~Present("Timeout") /\ Returned =>
          "Timeout" \notin DOMAIN Out

C10_Witness ==
    /\ Returned
    /\ kind = "Hangup"
    /\ ~Present("Cause")
    /\ Present("Channel")
    /\ Out["Cause"] = None

====
